---- MODULE Spec2Model ----
(***************************************************************************)
(* Model of analysis.process (python/analysis.py): the jet preselection,   *)
(* the dijet pairing, the dijet cuts, the quadjet ranking and selection    *)
(* and the cutflow fills of one chunk of events.                           *)
(*                                                                         *)
(* Units.  pt, masses and m4j are whole GeV; eta is in tenths; delta_r is  *)
(* in hundredths; xH is in thousandths; rank and the tie-break draws are   *)
(* in hundredths (so 0.1 is 10 and 0.9 is 90).                             *)
(* Jets and pairing indices are 0-based as in the source; rows of the      *)
(* event array, pairing slots and the lead/subl position are 1-based.      *)
(* The four-vector arithmetic of the vector library is not modelled: the   *)
(* invariant mass and the delta_r of every pair of jets, and the mass of   *)
(* the sum of all jets, are inputs that come with the event.               *)
(***************************************************************************)
EXTENDS Integers, Sequences, FiniteSets, TLC

\* ------------------------------------------------------------- bounds
\* longest file of events a specification starts from (the chunk size)
MaxEvents == 2
\* most jets an event of the jet-selection specification holds
MaxJets == 5

\* -------------------------------------------------- program constants
minJetPt == 40
maxJetEta == 24
minNJetSelected == 4
mH == 125
max_xHH == 1900
diJetMassWeight == 10
randomLow == 10
randomHigh == 90

\* pairing[r][p][k]: the jet index in row r of the table, pairing slot p,
\* position k.  Indexing Jet[:, pairing[r]] gives an array [event, p, k].
pairing ==
  << << <<0, 2>>, <<0, 1>>, <<0, 1>> >>,
     << <<1, 3>>, <<2, 3>>, <<3, 2>> >> >>

\* role thresholds, position 1 is lead st and position 2 is subl st
minDiJetMass == <<52, 50>>
maxDiJetMass == <<180, 173>>
min_m4j_scale == <<360, 235>>
min_dr_offset == <<-50, 0>>
max_m4j_scale == <<650, 650>>
max_dr_offset == <<50, 70>>
max_dr == <<150, 150>>
\* st_bias in thousandths
st_bias == <<1020, 980>>

Slots == 1..3
Roles == 1..2

Abs(x) == IF x < 0 THEN -x ELSE x

\* ------------------------------------------------------ pure operators

\* (Jet.pt >= 40) & (abs(Jet.eta) <= 2.4)
JetSelected(j) == (j.pt >= minJetPt) /\ (Abs(j.eta) <= maxJetEta)

RECURSIVE CountSelected(_, _)
CountSelected(jets, n) ==
  IF n = 0 THEN 0
  ELSE CountSelected(jets, n - 1) + (IF JetSelected(jets[n - 1]) THEN 1 ELSE 0)

\* ak.sum(Jet.selected, axis=1)
NJetSelected(ev) == CountSelected(ev.Jet, ev.nJet)

\* the cut made on the number of jets, selected or not
PassAnyJets(ev) == ev.nJet >= minNJetSelected

\* event.nJet_selected >= 4
PassPreselection(ev) == NJetSelected(ev) >= minNJetSelected

\* the pairing table read row by row: entry p of row k taken as one pair
PairJetsByRow(p, k) == <<pairing[k][p][1], pairing[k][p][2]>>

\* the jets Jet[:, pairing[0]] and Jet[:, pairing[1]] of dijet (p, k)
PairJets(p, k) == <<pairing[1][p][k], pairing[2][p][k]>>

\* one unsorted dijet: Jet[pairing[0]] + Jet[pairing[1]] with st, dr and the
\* two constituents
RawDiJet(ev, p, k) ==
  LET a == PairJets(p, k)[1]
      b == PairJets(p, k)[2]
  IN  [lead |-> a,
       subl |-> b,
       st   |-> ev.Jet[a].pt + ev.Jet[b].pt,
       dr   |-> ev.dr2j[{a, b}],
       mass |-> ev.m2j[{a, b}]]

\* the sort taken in ascending order
ArgSortAscending(st) == IF st[1] <= st[2] THEN <<1, 2>> ELSE <<2, 1>>

\* ak.argsort(st, axis=2, ascending=False) of one pairing: the positions in
\* the order they are taken (equal st keeps the original order)
ArgSortDescending(st) == IF st[1] >= st[2] THEN <<1, 2>> ELSE <<2, 1>>

\* diJet[event, pairing, lead/subl st] of one event after the sort
SortedDiJets(ev) ==
  [p \in Slots |->
     LET raw == [k \in Roles |-> RawDiJet(ev, p, k)]
         ord == ArgSortDescending([k \in Roles |-> raw[k].st])
     IN  [k \in Roles |-> raw[ord[k]]]]

\* (minDiJetMass < mass) & (mass < maxDiJetMass), thresholds by position
DiJetMassCut(mass, k) == (minDiJetMass[k] < mass) /\ (mass < maxDiJetMass[k])

\* (min_m4j_scale/m4j + min_dr_offset < dr)
\*   & (dr < maximum(max_m4j_scale/m4j + max_dr_offset, max_dr)),
\* multiplied through by m4j > 0 (dr and the offsets in hundredths)
DrCut(dr, m4j, k) ==
  LET lo  == 100 * min_m4j_scale[k] + min_dr_offset[k] * m4j
      hi1 == 100 * max_m4j_scale[k] + max_dr_offset[k] * m4j
      hi2 == max_dr[k] * m4j
      hi  == IF hi1 >= hi2 THEN hi1 ELSE hi2
  IN  (lo < dr * m4j) /\ (dr * m4j < hi)

\* the value standing for -inf, the quotient of a negative number by zero
NegInf == 0 - 1000 * 1000

\* xH without the 0.1 of the mass resolution
XHUnscaled(mass, k) ==
  IF mass = 0 THEN NegInf
  ELSE (1000 * mass - mH * st_bias[k]) \div mass

\* xH = (mass - cH)/(0.1*mass) with cH = mH*st_bias, in thousandths
XH(mass, k) ==
  IF mass = 0 THEN NegInf
  ELSE (10 * (1000 * mass - mH * st_bias[k])) \div mass

\* sqrt(lead.xH**2 + subl.xH**2) < max_xHH
XHHBelow(x1, x2) ==
  /\ Abs(x1) < max_xHH
  /\ Abs(x2) < max_xHH
  /\ x1 * x1 + x2 * x2 < max_xHH * max_xHH

\* the dijets of one event with diJetMass, drc and xH attached
ClassifiedDiJets(ev, dj) ==
  [p \in Slots |->
     [k \in Roles |->
        [lead      |-> dj[p][k].lead,
         subl      |-> dj[p][k].subl,
         st        |-> dj[p][k].st,
         dr        |-> dj[p][k].dr,
         mass      |-> dj[p][k].mass,
         diJetMass |-> DiJetMassCut(dj[p][k].mass, k),
         drc       |-> DrCut(dj[p][k].dr, ev.m4j, k),
         xH        |-> XH(dj[p][k].mass, k)]]]

B2I(b) == IF b THEN 1 ELSE 0

\* the rank with every flag weighing the same
RankFlat(lead, subl, random) ==
  100 * (B2I(lead.diJetMass) + B2I(subl.diJetMass)
         + B2I(lead.drc) + B2I(subl.drc))
  + random

\* 10*lead.diJetMass + 10*subl.diJetMass + lead.drc + subl.drc + random,
\* in hundredths
Rank(lead, subl, random) ==
  100 * (diJetMassWeight * B2I(lead.diJetMass)
         + diJetMassWeight * B2I(subl.diJetMass)
         + B2I(lead.drc) + B2I(subl.drc))
  + random

\* the quadJet with SB taken as the complement of SR
QuadJetSBNotSR(dj, p, random) ==
  LET dm == dj[p][1].diJetMass /\ dj[p][2].diJetMass
      sr == XHHBelow(dj[p][1].xH, dj[p][2].xH)
  IN  [lead      |-> dj[p][1],
       subl      |-> dj[p][2],
       diJetMass |-> dm,
       random    |-> random,
       SR        |-> sr,
       SB        |-> ~sr,
       rank      |-> Rank(dj[p][1], dj[p][2], random)]

\* the quadJet of one pairing of one event, before rank and selected
QuadJet(dj, p, random) ==
  LET dm == dj[p][1].diJetMass /\ dj[p][2].diJetMass
      sr == XHHBelow(dj[p][1].xH, dj[p][2].xH)
  IN  [lead      |-> dj[p][1],
       subl      |-> dj[p][2],
       diJetMass |-> dm,
       random    |-> random,
       SR        |-> sr,
       SB        |-> dm /\ ~sr,
       rank      |-> Rank(dj[p][1], dj[p][2], random)]

RECURSIVE MaxOver(_, _)
MaxOver(f, n) ==
  IF n = 1 THEN f[1]
  ELSE LET m == MaxOver(f, n - 1) IN IF f[n] > m THEN f[n] ELSE m

\* the comparison made on the whole part of the ranks
IsSelectedTruncated(qj, p) ==
  (qj[p].rank \div 100) = (MaxOver([q \in Slots |-> qj[q].rank], 3) \div 100)

\* quadJet.rank == np.max(quadJet.rank, axis=1)
IsSelected(qj, p) == qj[p].rank = MaxOver([q \in Slots |-> qj[q].rank], 3)

\* quadJet[quadJet.selected][:,0]: the first selected pairing
FirstSelected(sel) == CHOOSE p \in Slots : sel[p] /\ \A q \in Slots : sel[q] => p <= q

\* ------------------------------------------------------------- state

VARIABLES
  file,      \* the events of the input file, in entry order
  stream,    \* the uniform draws the generator delivers after seed(0)
  rng,       \* the generator's position in its stream
  pc,        \* where process() stands
  batch,     \* the chunk of events process() was called with
  event,     \* the event array (filtered by the preselection)
  diJet,     \* diJet[event][pairing][lead/subl st]
  quadJet,   \* quadJet[event][pairing]
  picked,    \* per event: quadJet_selected, diJetMass, SB, SR
  output,    \* the cutflow fills, in order: <<cut, region, entry>>
  ref        \* an earlier completed call: its chunk and what it returned

vars == <<file, stream, rng, pc, batch, event, diJet, quadJet, picked, output, ref>>

\* the generator repeats after Period draws: a call on a chunk of at most
\* MaxEvents events takes at most Period draws, so none repeats within a call
Period == 3 * MaxEvents

\* the generator left as the last call left it
NotSeeded(r) == r

\* np.random.seed(0)
Seeded(r) == 0

\* the draws laid out pairing by pairing instead of event by event
DrawColumnMajor(r, n) == stream[(r + (n % 3) * Len(event) + (n \div 3)) % Period]

\* draw number n (from 0) of np.random.uniform(low=0.1, high=0.9, ...) taken
\* with the generator at position r
Draw(r, n) == stream[(r + n) % Period]

\* the generator's position after n draws
Advance(r, n) == (r + n) % Period

\* output[...].fill(cut=cut, region=[region]*len(rows), ...)
Fill(out, rows, cut, region) ==
  out \o [i \in 1..Len(rows) |-> <<cut, region, rows[i].entry>>]

\* event[mask]
RECURSIVE Masked(_, _, _)
Masked(rows, mask, n) ==
  IF n = 0 THEN <<>>
  ELSE Masked(rows, mask, n - 1) \o (IF mask[n] THEN <<rows[n]>> ELSE <<>>)

NoRun == [called |-> FALSE, between |-> FALSE]

\* process(self, event): lines 36-61
Call ==
  /\ pc = "idle"
  /\ \E estart \in 0..(Len(file) - 1) :
       \E estop \in (estart + 1)..Len(file) :
         /\ batch' = SubSeq(file, estart + 1, estop)
         /\ event' = [i \in 1..(estop - estart) |->
                        [entry |-> i, ev |-> file[estart + i]]]
  /\ rng' = Seeded(rng)
  /\ output' = <<>>
  /\ diJet' = <<>>
  /\ quadJet' = <<>>
  /\ picked' = <<>>
  /\ pc' = "called"
  /\ UNCHANGED <<file, stream, ref>>

\* lines 64-68: the fill of cut 'all'
FillAll ==
  /\ pc = "called"
  /\ output' = Fill(output, event, "all", "inclusive")
  /\ pc' = "filled"
  /\ UNCHANGED <<file, stream, rng, batch, event, diJet, quadJet, picked, ref>>

\* event[event.nJet_selected >= 4] with the selected flags attached
Preselected(rows) ==
  LET flagged == [i \in 1..Len(rows) |->
                    [entry         |-> rows[i].entry,
                     ev            |-> rows[i].ev,
                     selected      |-> [j \in 0..(rows[i].ev.nJet - 1) |->
                                          JetSelected(rows[i].ev.Jet[j])],
                     nJet_selected |-> NJetSelected(rows[i].ev)]]
  IN  Masked(flagged,
             [i \in 1..Len(rows) |-> PassPreselection(rows[i].ev)],
             Len(rows))

\* lines 70-76: jet selection, the filter and the fill of cut 'preselection'
JetSelection ==
  /\ pc = "filled"
  /\ event' = Preselected(event)
  /\ output' = Fill(output, event', "preselection", "inclusive")
  /\ pc' = "preselected"
  /\ UNCHANGED <<file, stream, rng, batch, diJet, quadJet, picked, ref>>

\* lines 81-89: the dijets of every pairing, sorted by st within the pairing
BuildDiJets ==
  /\ pc = "preselected"
  /\ diJet' = [i \in 1..Len(event) |-> SortedDiJets(event[i].ev)]
  /\ pc' = "paired"
  /\ UNCHANGED <<file, stream, rng, batch, event, quadJet, picked, output, ref>>

\* lines 92-110: diJetMass, drc and xH of every dijet
CutDiJets ==
  /\ pc = "paired"
  /\ diJet' = [i \in 1..Len(event) |-> ClassifiedDiJets(event[i].ev, diJet[i])]
  /\ pc' = "cut"
  /\ UNCHANGED <<file, stream, rng, batch, event, quadJet, picked, output, ref>>

\* lines 115-129: the quadJets with their draws, regions, rank and selected
BuildQuadJets ==
  /\ pc = "cut"
  /\ quadJet' =
       [i \in 1..Len(event) |->
          LET qj == [p \in Slots |->
                       QuadJet(diJet[i], p, Draw(rng, 3 * (i - 1) + (p - 1)))]
          IN  [p \in Slots |->
                 [lead      |-> qj[p].lead,
                  subl      |-> qj[p].subl,
                  diJetMass |-> qj[p].diJetMass,
                  random    |-> qj[p].random,
                  SR        |-> qj[p].SR,
                  SB        |-> qj[p].SB,
                  rank      |-> qj[p].rank,
                  selected  |-> IsSelected(qj, p)]]]
  /\ rng' = Advance(rng, 3 * Len(event))
  /\ pc' = "built"
  /\ UNCHANGED <<file, stream, batch, event, diJet, picked, output, ref>>

\* lines 131-136: the selected quadJet and the event's diJetMass, SB, SR
Picked(qj) ==
  LET w == FirstSelected([p \in Slots |-> qj[p].selected])
  IN  [quadJet_selected |-> w,
       diJetMass        |-> qj[w].diJetMass,
       SB               |-> qj[w].SB,
       SR               |-> qj[w].SR]

SelectQuadJet ==
  /\ pc = "built"
  /\ picked' = [i \in 1..Len(event) |-> Picked(quadJet[i])]
  /\ pc' = "picked"
  /\ UNCHANGED <<file, stream, rng, batch, event, diJet, quadJet, output, ref>>

\* the three self.fill calls of lines 138-140
RegionFills(out, rows, res) ==
  LET n  == Len(rows)
      o1 == Fill(out, Masked(rows, [i \in 1..n |-> res[i].diJetMass], n),
                 "preselection", "diJetMass")
      o2 == Fill(o1, Masked(rows, [i \in 1..n |-> res[i].SB], n),
                 "preselection", "SB")
  IN  Fill(o2, Masked(rows, [i \in 1..n |-> res[i].SR], n),
           "preselection", "SR")

FillRegions ==
  /\ pc = "picked"
  /\ output' = RegionFills(output, event, picked)
  /\ pc' = "done"
  /\ UNCHANGED <<file, stream, rng, batch, event, diJet, quadJet, picked, ref>>

\* what a completed call has computed
ThisRun ==
  [called  |-> TRUE,
   between |-> FALSE,
   batch   |-> batch,
   entries |-> [i \in 1..Len(event) |-> event[i].entry],
   random  |-> [i \in 1..Len(event) |-> [p \in Slots |-> quadJet[i][p].random]],
   picked  |-> picked,
   output  |-> output]

\* the kept call, once told that this call has completed after it
Kept ==
  IF ref.called /\ ref.batch # batch THEN [ref EXCEPT !.between = TRUE] ELSE ref

\* line 145: return output.  The caller may keep what this call returned
\* instead of what it kept before.
Return ==
  /\ pc = "done"
  /\ ref' \in {Kept, ThisRun}
  /\ pc' = "idle"
  /\ batch' = <<>>
  /\ event' = <<>>
  /\ diJet' = <<>>
  /\ quadJet' = <<>>
  /\ picked' = <<>>
  /\ output' = <<>>
  /\ UNCHANGED <<file, stream, rng>>

Next ==
  \/ Call
  \/ FillAll
  \/ JetSelection
  \/ BuildDiJets
  \/ CutDiJets
  \/ BuildQuadJets
  \/ SelectQuadJet
  \/ FillRegions
  \/ Return

\* ------------------------------------------------------------ inputs

\* the pairs of the four jets the pairing table reaches
Pairs == {{a, b} : a \in 0..3, b \in 0..3} \ {{a} : a \in 0..3}

MkJet(pt, eta) == [pt |-> pt, eta |-> eta]

MkEvent(jets, n, m2j, dr2j, m4j) ==
  [nJet |-> n, Jet |-> jets, m2j |-> m2j, dr2j |-> dr2j, m4j |-> m4j]

\* a jet failing the pt cut, one passing both cuts at their edges, one
\* failing the eta cut and one passing with a higher pt
JetKinds == {MkJet(39, 0), MkJet(40, -24), MkJet(60, 25), MkJet(60, 24)}

\* events of 0..MaxJets jets of every kind, all pairs alike
JetEvents ==
  UNION {{MkEvent(jets, n, [pr \in Pairs |-> 100], [pr \in Pairs |-> 100], 400) :
            jets \in [0..(n - 1) -> JetKinds]} : n \in 0..MaxJets}

\* the stream whose draws are all 0.5
ConstStream == [k \in 0..(Period - 1) |-> 50]

Start(f, s) ==
  /\ file = f
  /\ stream = s
  /\ rng \in 0..(Period - 1)
  /\ pc = "idle"
  /\ batch = <<>>
  /\ event = <<>>
  /\ diJet = <<>>
  /\ quadJet = <<>>
  /\ picked = <<>>
  /\ output = <<>>
  /\ ref = NoRun

\* one event of any jets, the draws fixed
InitJets == \E e \in JetEvents : Start(<<e>>, ConstStream)

SpecJets == InitJets /\ [][Next]_vars

\* four jets passing both cuts, with these pt
FourJets(pts) == [j \in 0..3 |-> MkJet(pts[j + 1], 0)]

\* pt of the four jets: every pairing is met in both st orders and tied
PtPatterns == {<<70, 60, 50, 40>>, <<40, 50, 60, 70>>, <<40, 60, 60, 40>>}

\* a mass inside the subl window only, one inside both windows and far from
\* mH, one close to mH, one inside the lead window only
MassValues == {51, 100, 127, 175}

\* events of four selected jets with any masses of the six pairs
KinEvents ==
  {MkEvent(FourJets(pts), 4, m, [pr \in Pairs |-> 100], 400) :
     pts \in PtPatterns, m \in [Pairs -> MassValues]}

InitKin == \E e \in KinEvents : Start(<<e>>, ConstStream)

SpecKin == InitKin /\ [][Next]_vars

\* events of four selected jets whose pairs pass or fail the mass window and
\* the delta_r window (at m4j = 400, dr 1.0 passes and dr 2.5 fails)
RankEvents ==
  {MkEvent(FourJets(<<70, 60, 50, 40>>), 4, m, d, 400) :
     m \in [Pairs -> {100, 200}], d \in [Pairs -> {100, 250}]}

\* streams whose first three draws are any of the lowest and the highest
RankStreams ==
  {[k \in 0..(Period - 1) |-> IF k < 3 THEN t[k + 1] ELSE 50] :
     t \in [1..3 -> {11, 89}]}

InitRank == \E e \in RankEvents : \E s \in RankStreams : Start(<<e>>, s)

SpecRank == InitRank /\ [][Next]_vars

\* masses of the six pairs, given pairing by pairing
PairMasses(m1, m2, m3) ==
  [pr \in Pairs |->
     IF pr \in {{0, 1}, {2, 3}} THEN m1
     ELSE IF pr \in {{0, 2}, {1, 3}} THEN m2 ELSE m3]

\* a jet at the edge of both cuts, one just under the pt cut and one just
\* over the eta cut
GoodJet == MkJet(40, -24)
SoftJet == MkJet(39, 24)
WideJet == MkJet(60, 25)

\* the events of the files: three jets; four jets of which two pairings
\* tie in the discrete rank, one in SR and one in SB; five jets with the
\* first one soft; four jets with no pairing in the mass window (one with a
\* massless pair); four jets of which one is outside the eta cut
BatchEvents ==
  {MkEvent([j \in 0..2 |-> GoodJet], 3,
           PairMasses(127, 100, 200), [pr \in Pairs |-> 100], 400),
   MkEvent([j \in 0..3 |-> GoodJet], 4,
           PairMasses(127, 100, 200), [pr \in Pairs |-> 100], 400),
   MkEvent([j \in 0..4 |-> IF j = 0 THEN SoftJet ELSE GoodJet], 5,
           PairMasses(100, 127, 127), [pr \in Pairs |-> 100], 400),
   MkEvent([j \in 0..3 |-> GoodJet], 4,
           PairMasses(200, 0, 51), [pr \in Pairs |-> 100], 400),
   MkEvent([j \in 0..3 |-> IF j = 3 THEN WideJet ELSE GoodJet], 4,
           PairMasses(127, 100, 200), [pr \in Pairs |-> 100], 400)}

Files == UNION {[1..n -> BatchEvents] : n \in 1..MaxEvents}

\* streams giving every event of a chunk rising or falling draws
BatchStreams ==
  {[k \in 0..(Period - 1) |-> t[(k \div 3) + 1][(k % 3) + 1]] :
     t \in [1..MaxEvents -> {<<11, 50, 89>>, <<89, 50, 11>>}]}

Init == \E f \in Files : \E s \in BatchStreams : Start(f, s)

Spec == Init /\ [][Next]_vars

\* ------------------------------------------------------------ claims

AfterPairing == pc \in {"paired", "cut", "built", "picked", "done"}
AfterCuts == pc \in {"cut", "built", "picked", "done"}
AfterQuadJets == pc \in {"built", "picked", "done"}
AfterPick == pc \in {"picked", "done"}
Rows == 1..Len(event)

\* the jets of dijet k of pairing p of row i
JetsOf(i, p, k) == {diJet[i][p][k].lead, diJet[i][p][k].subl}

\* how often entry e was filled under (cut, region)
Count(cut, region, e) ==
  Cardinality({n \in 1..Len(output) : output[n] = <<cut, region, e>>})

\* C3: every surviving event has exactly 3 pairing slots; the two dijets of
\* a slot are two disjoint pairs of jet indices covering {0,1,2,3}; the three
\* slots are three different partitions of the four jets.
C3_PairingsPartition ==
  AfterPairing =>
    /\ Len(diJet) = Len(event)
    /\ \A i \in Rows :
         /\ DOMAIN diJet[i] = 1..3
         /\ \A p \in 1..3 :
              /\ DOMAIN diJet[i][p] = 1..2
              /\ Cardinality(JetsOf(i, p, 1)) = 2
              /\ Cardinality(JetsOf(i, p, 2)) = 2
              /\ JetsOf(i, p, 1) \cap JetsOf(i, p, 2) = {}
              /\ JetsOf(i, p, 1) \cup JetsOf(i, p, 2) = {0, 1, 2, 3}
         /\ \A p \in 1..3 : \A q \in 1..3 :
              p # q => {JetsOf(i, p, 1), JetsOf(i, p, 2)}
                         # {JetsOf(i, q, 1), JetsOf(i, q, 2)}

\* C3 witness: the dijets of an event of more than four jets have been built
C3_Witness ==
  /\ pc = "paired"
  /\ Len(event) = 1
  /\ event[1].ev.nJet > 4
  /\ JetsOf(1, 3, 1) = {0, 3}

\* C8: each of the four jets the dijets are built from is a selected jet,
\* and the four are the first four selected jets of the event in jet order.
C8_PairsSelectedJets ==
  AfterPairing =>
    \A i \in Rows : \A p \in 1..3 : \A k \in 1..2 : \A j \in JetsOf(i, p, k) :
      /\ event[i].selected[j]
      /\ Cardinality({l \in 0..(j - 1) : event[i].selected[l]}) < 4

\* C1: for every quadJet of every surviving event SB implies that both its
\* dijets pass their mass window and that SR is false; the same holds for
\* the event's flags copied from the selected quadJet, and no event is
\* filled under both 'SB' and 'SR'.
C1_SidebandExcludesSignal ==
  /\ AfterQuadJets =>
       \A i \in Rows : \A p \in 1..3 :
         quadJet[i][p].SB =>
           /\ quadJet[i][p].diJetMass
           /\ quadJet[i][p].lead.diJetMass
           /\ quadJet[i][p].subl.diJetMass
           /\ ~quadJet[i][p].SR
  /\ AfterPick =>
       \A i \in Rows :
         picked[i].SB =>
           /\ picked[i].diJetMass
           /\ quadJet[i][picked[i].quadJet_selected].lead.diJetMass
           /\ quadJet[i][picked[i].quadJet_selected].subl.diJetMass
           /\ ~picked[i].SR
  /\ pc = "done" =>
       \A e \in 1..Len(batch) :
         Count("preselection", "SB", e) > 0 =>
           /\ Count("preselection", "SR", e) = 0
           /\ Count("preselection", "diJetMass", e) > 0

\* C1 witness: an event was filled under 'SB' although another of its
\* quadJets is in SR
C1_Witness ==
  /\ pc = "done"
  /\ Len(event) = 1
  /\ picked[1].SB
  /\ Count("preselection", "SB", 1) = 1
  /\ \E p \in 1..3 : quadJet[1][p].SR /\ quadJet[1][p].diJetMass

\* the two raw dijets of pairing p of row i, in the order of the table
RawFirst(p) == {pairing[1][p][1], pairing[2][p][1]}
RawSecond(p) == {pairing[1][p][2], pairing[2][p][2]}
PtSum(i, js) ==
  LET a == CHOOSE j \in js : TRUE
      b == CHOOSE j \in js : j # a
  IN  event[i].ev.Jet[a].pt + event[i].ev.Jet[b].pt

\* C4: in every pairing the dijet in the lead position has st >= the st of
\* the dijet in the subl position, each dijet keeping the st and the mass of
\* its own two jets; the mass window 52..180 and the bias 1.02 are applied to
\* the lead position, 50..173 and 0.98 to the subl position.
C4_LeadSublOrder ==
  /\ AfterPairing =>
       \A i \in Rows : \A p \in 1..3 :
         /\ diJet[i][p][1].st >= diJet[i][p][2].st
         /\ {JetsOf(i, p, 1), JetsOf(i, p, 2)} = {RawFirst(p), RawSecond(p)}
         /\ \A k \in 1..2 :
              /\ diJet[i][p][k].st = PtSum(i, JetsOf(i, p, k))
              /\ diJet[i][p][k].mass = event[i].ev.m2j[JetsOf(i, p, k)]
  /\ AfterCuts =>
       \A i \in Rows : \A p \in 1..3 :
         LET l == diJet[i][p][1]
             s == diJet[i][p][2]
         IN  /\ l.diJetMass = (52 < l.mass /\ l.mass < 180)
             /\ s.diJetMass = (50 < s.mass /\ s.mass < 173)
             /\ l.mass > 0 =>
                  /\ l.xH * l.mass <= 10 * (1000 * l.mass - 127500)
                  /\ 10 * (1000 * l.mass - 127500) < (l.xH + 1) * l.mass
             /\ s.mass > 0 =>
                  /\ s.xH * s.mass <= 10 * (1000 * s.mass - 122500)
                  /\ 10 * (1000 * s.mass - 122500) < (s.xH + 1) * s.mass

\* C4 witness: a pairing whose second dijet has the larger st was swapped,
\* and the masses 175 and 51 pass the windows of the positions they land in
C4_Witness ==
  /\ pc = "cut"
  /\ Len(event) = 1
  /\ \E p \in 1..3 :
       /\ JetsOf(1, p, 1) = RawSecond(p)
       /\ diJet[1][p][1].st > diJet[1][p][2].st
       /\ diJet[1][p][1].mass = 175 /\ diJet[1][p][1].diJetMass
       /\ diJet[1][p][2].mass = 51 /\ diJet[1][p][2].diJetMass

\* C5: an event with at least 4 selected jets none of whose 3 quadJets has
\* both dijets inside their mass windows is filled under none of
\* 'diJetMass', 'SB', 'SR' and is filled once under ('all','inclusive') and
\* once under ('preselection','inclusive').
C5_NoMassWindowNoRegion ==
  pc = "done" =>
    \A i \in Rows :
      (\A p \in 1..3 :
         ~(quadJet[i][p].lead.diJetMass /\ quadJet[i][p].subl.diJetMass)) =>
        /\ Count("preselection", "diJetMass", event[i].entry) = 0
        /\ Count("preselection", "SB", event[i].entry) = 0
        /\ Count("preselection", "SR", event[i].entry) = 0
        /\ ~picked[i].SR
        /\ Count("all", "inclusive", event[i].entry) = 1
        /\ Count("preselection", "inclusive", event[i].entry) = 1

\* C5 witness: no quadJet of the event passes, though in each of them one
\* dijet is inside its window
C5_Witness ==
  /\ pc = "done"
  /\ Len(event) = 1
  /\ \A p \in 1..3 :
       /\ ~quadJet[1][p].diJetMass
       /\ quadJet[1][p].lead.diJetMass \/ quadJet[1][p].subl.diJetMass
  /\ Count("preselection", "inclusive", 1) = 1

\* the quadJets of row i flagged selected
Flagged(i) == {p \in 1..3 : quadJet[i][p].selected}

\* the quadJets of row i no other quadJet of the row outranks
Top(i) == {p \in 1..3 : \A q \in 1..3 : quadJet[i][p].rank >= quadJet[i][q].rank}

\* C2 as stated: for any draws, exactly one of the 3 quadJets of every
\* surviving event is flagged selected.
C2_ExactlyOneFlagged ==
  AfterQuadJets => \A i \in Rows : Cardinality(Flagged(i)) = 1

\* C2 amended: at least one quadJet of every surviving event is flagged
\* selected, the flagged ones are those of maximal rank, and exactly one is
\* flagged whenever no two quadJets of the event have the same rank; the
\* event's quadJet_selected is always the first flagged one in slot order.
C2_FlaggedAreTheTopRanked ==
  /\ AfterQuadJets =>
       \A i \in Rows :
         /\ Flagged(i) # {}
         /\ Flagged(i) = Top(i)
         /\ (\A p \in 1..3 : \A q \in 1..3 :
               p # q => quadJet[i][p].rank # quadJet[i][q].rank)
              => Cardinality(Flagged(i)) = 1
  /\ AfterPick =>
       \A i \in Rows :
         /\ picked[i].quadJet_selected \in Flagged(i)
         /\ \A p \in Flagged(i) : picked[i].quadJet_selected <= p

\* C2 witness: two quadJets with equal flags and equal draws are both
\* flagged, and the first of them is the event's quadJet_selected
C2_Witness ==
  /\ pc = "picked"
  /\ Len(event) = 1
  /\ Flagged(1) = {2, 3}
  /\ quadJet[1][2].random = quadJet[1][3].random
  /\ picked[1].quadJet_selected = 2

MassPasses(i, p) ==
  B2I(quadJet[i][p].lead.diJetMass) + B2I(quadJet[i][p].subl.diJetMass)
DrPasses(i, p) ==
  B2I(quadJet[i][p].lead.drc) + B2I(quadJet[i][p].subl.drc)

\* C9: between two quadJets of an event the one with more dijets inside the
\* mass window has the higher rank; with as many, the one with more dijets
\* passing drc has the higher rank; with as many of both, the higher draw
\* has the higher rank.  So the event's diJetMass is true exactly when one
\* of its 3 quadJets has both dijets inside the mass window.
C9_RankIsLexicographic ==
  /\ AfterQuadJets =>
       \A i \in Rows : \A p \in 1..3 : \A q \in 1..3 :
         /\ randomLow < quadJet[i][p].random /\ quadJet[i][p].random < randomHigh
         /\ MassPasses(i, p) > MassPasses(i, q)
              => quadJet[i][p].rank > quadJet[i][q].rank
         /\ (MassPasses(i, p) = MassPasses(i, q) /\ DrPasses(i, p) > DrPasses(i, q))
              => quadJet[i][p].rank > quadJet[i][q].rank
         /\ (MassPasses(i, p) = MassPasses(i, q) /\ DrPasses(i, p) = DrPasses(i, q))
              => (quadJet[i][p].rank > quadJet[i][q].rank
                    <=> quadJet[i][p].random > quadJet[i][q].random)
  /\ AfterPick =>
       \A i \in Rows :
         picked[i].diJetMass <=> \E p \in 1..3 : MassPasses(i, p) = 2

\* C9 witness: the selected quadJet has both dijets inside the mass window,
\* no dijet passing drc and the lowest draw, against a quadJet with one dijet
\* inside the mass window, both passing drc and the highest draw
C9_Witness ==
  /\ pc = "picked"
  /\ Len(event) = 1
  /\ \E p \in 1..3 : \E q \in 1..3 :
       /\ picked[1].quadJet_selected = p
       /\ MassPasses(1, p) = 2 /\ DrPasses(1, p) = 0 /\ quadJet[1][p].random = 11
       /\ MassPasses(1, q) = 1 /\ DrPasses(1, q) = 2 /\ quadJet[1][q].random = 89

\* whether entry e of the chunk has at least 4 jets with pt >= 40 and
\* |eta| <= 2.4
FourGoodJets(e) ==
  Cardinality({j \in 0..(batch[e].nJet - 1) :
                 /\ batch[e].Jet[j].pt >= 40
                 /\ batch[e].Jet[j].eta >= -24
                 /\ batch[e].Jet[j].eta <= 24}) >= 4

Entries == {event[i].entry : i \in Rows}

\* C6: every event of the chunk is filled once under ('all','inclusive')
\* before the filter runs; it is filled (once) under
\* ('preselection','inclusive') iff it has at least 4 jets with pt >= 40 and
\* |eta| <= 2.4; a dropped event is in no later stage and is never filled
\* under 'diJetMass', 'SB' or 'SR'.
C6_PreselectionFilter ==
  /\ pc = "filled" =>
       /\ Len(event) = Len(batch)
       /\ \A e \in 1..Len(batch) : Count("preselection", "inclusive", e) = 0
  /\ pc \in {"filled", "preselected", "paired", "cut", "built", "picked", "done"} =>
       \A e \in 1..Len(batch) : Count("all", "inclusive", e) = 1
  /\ pc \in {"preselected", "paired", "cut", "built", "picked", "done"} =>
       /\ \A e \in 1..Len(batch) :
            /\ Count("preselection", "inclusive", e) = (IF FourGoodJets(e) THEN 1 ELSE 0)
            /\ e \in Entries <=> FourGoodJets(e)
            /\ ~FourGoodJets(e) =>
                 /\ Count("preselection", "diJetMass", e) = 0
                 /\ Count("preselection", "SB", e) = 0
                 /\ Count("preselection", "SR", e) = 0
       /\ \A i \in Rows : event[i].ev = batch[event[i].entry]
       /\ \A i \in Rows : \A j \in Rows : i < j => event[i].entry < event[j].entry
  /\ AfterPairing => Len(diJet) = Len(event)
  /\ AfterQuadJets => Len(quadJet) = Len(event)
  /\ AfterPick => Len(picked) = Len(event)

\* C6 witness: of a chunk of two events the first was dropped and the second
\* went through every stage and was filled under a region
C6_Witness ==
  /\ pc = "done"
  /\ Len(batch) = 2
  /\ batch[1].nJet >= 4
  /\ Entries = {2}
  /\ Count("preselection", "SR", 2) = 1

\* C7: a call on the chunk of a kept earlier call, whatever calls came in
\* between, takes the same draws, selects the same quadJet for every event
\* and makes the same fills; every call starts from the seeded generator.
C7_SameChunkSameResult ==
  /\ pc = "called" => rng = 0
  /\ (pc = "done" /\ ref.called /\ ref.batch = batch) =>
       /\ ThisRun.random = ref.random
       /\ ThisRun.picked = ref.picked
       /\ ThisRun.entries = ref.entries
       /\ ThisRun.output = ref.output

\* C7 witness: a chunk with a surviving event is done again after a call on
\* another chunk that took draws
C7_Witness ==
  /\ pc = "done"
  /\ ref.called
  /\ ref.batch = batch
  /\ ref.between
  /\ Len(event) >= 1
  /\ rng # 0

\* whether row i of this call and row j of the call r hold the same event
SameEvent(i, r, j) == event[i].ev = r.batch[r.entries[j]]

\* C10 as stated: the selected quadJet and the flags of an event depend on
\* its own jets only: the same event gets the same ones wherever it stands
\* in this chunk or in the chunk of a kept earlier call.
C10_OwnJetsOnly ==
  pc = "done" =>
    /\ \A i \in Rows : \A j \in Rows :
         SameEvent(i, ThisRun, j) => picked[i] = picked[j]
    /\ ref.called =>
         \A i \in Rows : \A j \in 1..Len(ref.entries) :
           SameEvent(i, ref, j) => picked[i] = ref.picked[j]

\* C10 amended: the selected quadJet and the flags of an event depend on its
\* own jets and on the three draws it receives, which are dealt by its
\* position among the surviving events of the chunk: the same event with the
\* same draws, and so the same event at the same surviving position of any
\* two chunks, gets the same selected quadJet and the same flags.
C10_OwnJetsAndDraws ==
  pc = "done" =>
    /\ \A i \in Rows : \A j \in Rows :
         (SameEvent(i, ThisRun, j) /\ ThisRun.random[i] = ThisRun.random[j])
           => picked[i] = picked[j]
    /\ ref.called =>
         \A i \in Rows : \A j \in 1..Len(ref.entries) :
           /\ (SameEvent(i, ref, j) /\ ThisRun.random[i] = ref.random[j])
                => picked[i] = ref.picked[j]
           /\ (SameEvent(i, ref, j) /\ i = j)
                => (ThisRun.random[i] = ref.random[j] /\ picked[i] = ref.picked[j])

\* C10 witness: an event whose draws decide between a quadJet in SR and one
\* in SB stands at the same surviving position of two different chunks
C10_Witness ==
  /\ pc = "done"
  /\ ref.called
  /\ ref.batch # batch
  /\ \E i \in Rows :
       /\ i <= Len(ref.entries)
       /\ SameEvent(i, ref, i)
       /\ event[i].entry # ref.entries[i]
       /\ \E p \in 1..3 : \E q \in 1..3 :
            /\ quadJet[i][p].SR /\ quadJet[i][q].SB
            /\ MassPasses(i, p) = MassPasses(i, q)
            /\ DrPasses(i, p) = DrPasses(i, q)

====
